---- MODULE Spec2Model ----
(***************************************************************************)
(* Model of hyprland-scripts/workspace-manager.py: one invocation of the   *)
(* command-line tool.  The invocation parses its arguments, makes at most  *)
(* one blocking subprocess.run call on hyprctl, prints to standard output  *)
(* and ends with a process exit status.                                    *)
(*                                                                         *)
(* Text that the code cuts into pieces (the command line handed to         *)
(* str.split) is a sequence of one-character strings; printed lines and    *)
(* argument-list entries are strings.                                      *)
(***************************************************************************)
EXTENDS Integers, Sequences, FiniteSets, TLC

VARIABLES pc, args, calls, proc, out, exc, exitStatus

vars == <<pc, args, calls, proc, out, exc, exitStatus>>

(* ------------------------------ bounds --------------------------------- *)

\* longest --name value tried
MaxNameLen == 3
\* longest JSON array the query command returns
MaxRecords == 2
\* largest non-zero exit status of hyprctl tried
MaxRc == 2

(* --------------------------- text helpers ------------------------------ *)

\* characters a --name value is made of
Alphabet == {"a", "b", " "}

\* characters str.split() treats as separators
Whitespace == {" "}

RECURSIVE Str(_)
\* the string spelled by a sequence of characters
Str(s) == IF s = <<>> THEN "" ELSE Head(s) \o Str(Tail(s))

RECURSIVE SplitAcc(_, _, _)
\* str.split() scanning s: cur is the word being read, words those finished
SplitAcc(s, cur, words) ==
    IF s = <<>>
    THEN IF cur = <<>> THEN words ELSE Append(words, Str(cur))
    ELSE IF Head(s) \in Whitespace
         THEN SplitAcc(Tail(s), <<>>,
                       IF cur = <<>> THEN words ELSE Append(words, Str(cur)))
         ELSE SplitAcc(Tail(s), Append(cur, Head(s)), words)

\* cmd.split(): the maximal runs of non-whitespace characters, in order
Split(s) == SplitAcc(s, <<>>, <<>>)

RECURSIVE ReprItems(_)
\* the entries of a list of strings as Python's repr shows them
ReprItems(l) ==
    IF l = <<>> THEN ""
    ELSE "'" \o Head(l) \o "'"
         \o (IF Tail(l) = <<>> THEN "" ELSE ", " \o ReprItems(Tail(l)))

\* repr() of a list of strings
Repr(l) == "[" \o ReprItems(l) \o "]"

\* str() of the CalledProcessError raised by subprocess.run(..., check=True)
CalledProcessErrorText(argv, rc) ==
    "Command '" \o Repr(argv) \o "' returned non-zero exit status "
    \o ToString(rc) \o "."

(* ----------------------------- commands -------------------------------- *)

\* "hyprctl workspaces -j"
QueryCmd ==
    <<"h","y","p","r","c","t","l"," ",
      "w","o","r","k","s","p","a","c","e","s"," ","-","j">>

\* f"hyprctl dispatch workspace name:{name}"
DispatchCmd(name) ==
    <<"h","y","p","r","c","t","l"," ",
      "d","i","s","p","a","t","c","h"," ",
      "w","o","r","k","s","p","a","c","e"," ",
      "n","a","m","e",":">> \o name

(* ------------------------- command-line input -------------------------- *)

\* choices=["list", "create"]
Choices == {"list", "create"}

\* words tried as the positional argument
Actions == Choices \cup {"remove"}

\* values of --name: sequences of characters
Names == UNION {[1..n -> Alphabet] : n \in 0..MaxNameLen}

\* args.name is None when --name is not given
NoName == [given |-> FALSE, value |-> <<>>]

NameArgs == {NoName} \cup {[given |-> TRUE, value |-> n] : n \in Names}

\* the namespace before parse_args has run
NoArgs == [action |-> "", name |-> NoName]

\* a check that tests only `args.name is None`
NameMissingNoneOnly(name) == ~name.given

\* `not args.name`: None and the empty string are both false
NameMissing(name) == ~name.given \/ name.value = <<>>

(* ---------------------- output of the query command -------------------- *)

\* one element of the decoded array: a JSON object with optional keys, or
\* (dict = FALSE) a JSON value that is not an object
Element(d, hi, i, hn, n, hw, w) ==
    [dict |-> d, hasId |-> hi, id |-> i, hasName |-> hn, name |-> n,
     hasWindows |-> hw, windows |-> w]

NotAnObject == Element(FALSE, FALSE, 0, FALSE, "", FALSE, 0)

Objects ==
    { Element(TRUE, hi, i, hn, n, hw, w) :
        hi \in BOOLEAN, i \in {0, 1}, hn \in BOOLEAN, n \in {"", "main"},
        hw \in BOOLEAN, w \in {0, 3} }

\* objects in canonical form (an absent key carries no value)
Elements ==
    { e \in Objects : /\ (~e.hasId => e.id = 0)
                      /\ (e.hasName <=> e.name # "")
                      /\ (~e.hasWindows => e.windows = 0) }
    \cup {NotAnObject}

\* objects of the documented shape: id and windows present, name optional
Records == { e \in Elements : e.dict /\ e.hasId /\ e.hasWindows }

Value(k, n, items, detail) ==
    [kind |-> k, n |-> n, items |-> items, detail |-> detail]

\* text json.loads rejects, with the message of its JSONDecodeError
NotJSON == Value("invalid", 0, <<>>, "Expecting value: line 1 column 1 (char 0)")

Arrays ==
    { Value("array", 0, items, "") :
        items \in UNION {[1..n -> Elements] : n \in 0..MaxRecords} }

\* valid JSON that is not an array: null, numbers, strings and objects
\* (n is the number, the length of the string, the number of keys)
NonArrays ==
    {Value("null", 0, <<>>, "")}
    \cup {Value(k, n, <<>>, "") : k \in {"number", "string", "object"}, n \in {0, 1}}

Stdouts == {NotJSON} \cup NonArrays \cup Arrays

\* the value get_workspaces returns from its except clauses
EmptyList == Value("array", 0, <<>>, "")

\* a check that tests only `workspaces is None`
TruthyUnlessNone(v) == v.kind # "null"

\* Python truth value of a decoded JSON value
Truthy(v) ==
    CASE v.kind = "array"  -> v.items # <<>>
      [] v.kind = "null"   -> FALSE
      [] OTHER             -> v.n # 0

\* can `for ws in workspaces` start
Iterable(v) == v.kind \in {"array", "string", "object"}

\* what the for loop visits: the elements of an array, the keys of an
\* object, the characters of a string (keys and characters are strings)
Iterate(v) ==
    IF v.kind = "array" THEN v.items ELSE [k \in 1..v.n |-> NotAnObject]

(* -------------------------- subprocess outcomes ------------------------ *)

Outcome(how, rc, stdout) == [how |-> how, rc |-> rc, stdout |-> stdout]

NoOutcome == Outcome("none", 0, NotJSON)

\* hyprctl cannot be started, exits non-zero, or exits zero after writing
QueryOutcomes ==
    {Outcome("oserror", 0, NotJSON)}
    \cup {Outcome("exit", rc, NotJSON) : rc \in 1..MaxRc}
    \cup {Outcome("exit", 0, s) : s \in Stdouts}

DispatchOutcomes ==
    {Outcome("oserror", 0, NotJSON)}
    \cup {Outcome("exit", rc, NotJSON) : rc \in 0..MaxRc}

\* the exception subprocess.run(..., check=True) raises, if any
RunRaises(r) ==
    IF r.how = "oserror" THEN "FileNotFoundError"
    ELSE IF r.rc # 0 THEN "CalledProcessError"
    ELSE "none"

\* result of a function body: lines printed, value returned, exception
\* left uncaught
Result(lines, value, e) == [out |-> lines, value |-> value, exc |-> e]

(* ---------------------------- get_workspaces --------------------------- *)

\* an except list that leaves out CalledProcessError
CatchesJSONOnly == {"JSONDecodeError"}

\* an except list that leaves out JSONDecodeError
CatchesExitOnly == {"CalledProcessError"}

\* the except clauses of get_workspaces
GetWorkspacesCatches == {"CalledProcessError", "JSONDecodeError"}

\* the exception raised inside the try block: by subprocess.run, else by
\* json.loads
QueryRaises(r) ==
    IF RunRaises(r) # "none" THEN RunRaises(r)
    ELSE IF r.stdout.kind = "invalid" THEN "JSONDecodeError"
    ELSE "none"

get_workspaces(r) ==
    LET raised == QueryRaises(r) IN
    IF raised = "none" THEN Result(<<>>, r.stdout, "none")
    ELSE IF raised \notin GetWorkspacesCatches THEN Result(<<>>, EmptyList, raised)
    ELSE IF raised = "CalledProcessError"
    THEN Result(<<"Error getting workspaces: "
                  \o CalledProcessErrorText(Split(QueryCmd), r.rc)>>,
                EmptyList, "none")
    ELSE Result(<<"Error parsing workspaces: " \o r.stdout.detail>>,
                EmptyList, "none")

(* ---------------------------- list_workspaces -------------------------- *)

\* a line whose name falls back to None instead of 'Unnamed'
FormatLineNoDefault(ws) ==
    "  " \o ToString(ws.id) \o ": "
    \o (IF ws.hasName THEN ws.name ELSE "None")
    \o " (" \o ToString(ws.windows) \o " windows)"

\* f"  {ws['id']}: {ws.get('name', 'Unnamed')} ({ws['windows']} windows)"
FormatLine(ws) ==
    "  " \o ToString(ws.id) \o ": "
    \o (IF ws.hasName THEN ws.name ELSE "Unnamed")
    \o " (" \o ToString(ws.windows) \o " windows)"

\* the exception the subscripts ws['id'] and ws['windows'] raise, if any
LineRaises(ws) ==
    IF ~ws.dict THEN "TypeError"
    ELSE IF ~ws.hasId \/ ~ws.hasWindows THEN "KeyError"
    ELSE "none"

RECURSIVE PrintLoop(_)
\* the for loop: one line per element until a subscript raises
PrintLoop(items) ==
    IF items = <<>> THEN Result(<<>>, EmptyList, "none")
    ELSE IF LineRaises(Head(items)) # "none"
    THEN Result(<<>>, EmptyList, LineRaises(Head(items)))
    ELSE LET rest == PrintLoop(Tail(items)) IN
         Result(<<FormatLine(Head(items))>> \o rest.out, EmptyList, rest.exc)

list_workspaces(r) ==
    LET got == get_workspaces(r) IN
    IF got.exc # "none" THEN got
    ELSE IF ~Truthy(got.value)
    THEN Result(got.out \o <<"No workspaces found">>, EmptyList, "none")
    ELSE IF ~Iterable(got.value)
    THEN Result(got.out \o <<"Active Workspaces:">>, EmptyList, "TypeError")
    ELSE LET loop == PrintLoop(Iterate(got.value)) IN
         Result(got.out \o <<"Active Workspaces:">> \o loop.out,
                EmptyList, loop.exc)

(* --------------------------- create_workspace -------------------------- *)

\* a body that prints the confirmation whether or not the command failed
create_workspace_always_confirms(name, argv, r) ==
    IF RunRaises(r) = "FileNotFoundError" THEN Result(<<>>, EmptyList, RunRaises(r))
    ELSE IF RunRaises(r) = "CalledProcessError"
    THEN Result(<<"Error creating workspace: " \o CalledProcessErrorText(argv, r.rc),
                  "Created workspace: " \o Str(name)>>, EmptyList, "none")
    ELSE Result(<<"Created workspace: " \o Str(name)>>, EmptyList, "none")

\* the body of create_workspace once subprocess.run(argv) has ended as r
create_workspace(name, argv, r) ==
    IF RunRaises(r) = "none"
    THEN Result(<<"Created workspace: " \o Str(name)>>, EmptyList, "none")
    ELSE IF RunRaises(r) = "CalledProcessError"
    THEN Result(<<"Error creating workspace: " \o CalledProcessErrorText(argv, r.rc)>>,
                EmptyList, "none")
    ELSE Result(<<>>, EmptyList, RunRaises(r))

(* --------------------------------- main -------------------------------- *)

Step(p, a, c, o, st) ==
    [pc |-> p, args |-> a, calls |-> c, out |-> o, status |-> st]

\* a main that starts the dispatch command without looking at --name
main_without_name_check(a, name) ==
    IF a \notin Choices THEN Step("done", NoArgs, <<>>, <<>>, 2)
    ELSE IF a = "list"
    THEN Step("query", [action |-> a, name |-> name], <<Split(QueryCmd)>>, <<>>, -1)
    ELSE Step("dispatch", [action |-> a, name |-> name],
              <<Split(DispatchCmd(name.value))>>, <<>>, -1)

\* main up to its first blocking call or its exit: parse_args rejects a
\* positional outside choices with status 2; `list` and `create` with a
\* name enter subprocess.run; `create` without one prints and exits 1
main(a, name) ==
    IF a \notin Choices THEN Step("done", NoArgs, <<>>, <<>>, 2)
    ELSE IF a = "list"
    THEN Step("query", [action |-> a, name |-> name], <<Split(QueryCmd)>>, <<>>, -1)
    ELSE IF NameMissing(name)
    THEN Step("done", [action |-> a, name |-> name], <<>>,
              <<"Error: --name required for create action">>, 1)
    ELSE Step("dispatch", [action |-> a, name |-> name],
              <<Split(DispatchCmd(name.value))>>, <<>>, -1)

\* exit status of the interpreter: 1 after an uncaught exception
ExitAfter(e) == IF e = "none" THEN 0 ELSE 1

(* ------------------------------ the machine ---------------------------- *)

TypeOK ==
    /\ pc \in {"start", "query", "dispatch", "done"}
    /\ args \in {NoArgs} \cup [action : Choices, name : NameArgs]
    /\ Len(calls) \in 0..2
    /\ proc \in {NoOutcome} \cup QueryOutcomes \cup DispatchOutcomes
    /\ exc \in {"none", "FileNotFoundError", "KeyError", "TypeError",
                "CalledProcessError", "JSONDecodeError"}
    /\ exitStatus \in {-1, 0, 1, 2}

Init ==
    /\ pc = "start"
    /\ args = NoArgs
    /\ calls = <<>>
    /\ proc = NoOutcome
    /\ out = <<>>
    /\ exc = "none"
    /\ exitStatus = -1

\* the process starts with some command line and runs main to its first
\* subprocess.run, or to its exit
Main ==
    /\ pc = "start"
    /\ \E a \in Actions, name \in NameArgs :
         LET m == main(a, name) IN
         /\ pc' = m.pc
         /\ args' = m.args
         /\ calls' = calls \o m.calls
         /\ out' = out \o m.out
         /\ exitStatus' = m.status
    /\ UNCHANGED <<proc, exc>>

\* the query command ends; list_workspaces runs to its end
ListWorkspaces ==
    /\ pc = "query"
    /\ \E r \in QueryOutcomes :
         LET res == list_workspaces(r) IN
         /\ proc' = r
         /\ out' = out \o res.out
         /\ exc' = res.exc
         /\ exitStatus' = ExitAfter(res.exc)
    /\ pc' = "done"
    /\ UNCHANGED <<args, calls>>

\* the dispatch command ends; create_workspace runs to its end
CreateWorkspace ==
    /\ pc = "dispatch"
    /\ \E r \in DispatchOutcomes :
         LET res == create_workspace(args.name.value, calls[1], r) IN
         /\ proc' = r
         /\ out' = out \o res.out
         /\ exc' = res.exc
         /\ exitStatus' = ExitAfter(res.exc)
    /\ pc' = "done"
    /\ UNCHANGED <<args, calls>>

Next == Main \/ ListWorkspaces \/ CreateWorkspace

Spec == Init /\ [][Next]_vars

(* ------------------------------ properties ----------------------------- *)

\* the invocation parsed as `create` with --name absent or empty
CreateWithoutName ==
    /\ args.action = "create"
    /\ (~args.name.given \/ args.name.value = <<>>)

\* the invocation parsed as `create` with a non-empty --name
CreateWithName ==
    /\ args.action = "create"
    /\ args.name.given
    /\ args.name.value # <<>>

\* the query command of a `list` invocation has exited with status rc
QueryExited(rc) ==
    /\ pc = "done"
    /\ args.action = "list"
    /\ proc.how = "exit"
    /\ proc.rc = rc

\* the dispatch command of a `create` invocation has exited
DispatchExited ==
    /\ pc = "done"
    /\ CreateWithName
    /\ proc.how = "exit"

\* C1: `create` with --name absent or empty prints the error message, exits
\* with status 1, and never calls the external command.
C1_CreateWithoutNameExits1 ==
    CreateWithoutName =>
        /\ pc = "done"
        /\ out = <<"Error: --name required for create action">>
        /\ exitStatus = 1
        /\ calls = <<>>

\* `create --name ""` has ended
C1_Witness ==
    /\ pc = "done"
    /\ args.action = "create"
    /\ args.name.given
    /\ args.name.value = <<>>

\* C2: among the invocations parse_args accepts, `create` without --name is
\* the only one that ends with a non-zero exit status; every other failure
\* ends with status 0.
C2_OnlyCreateWithoutNameFails ==
    (pc = "done" /\ args.action \in Choices) =>
        (exitStatus # 0 <=> CreateWithoutName)

\* C3 as stated: after a non-zero exit of the query command, `list` prints
\* one diagnostic and nothing after it, and the exit status is 0.
C3_NoFurtherOutput ==
    \A rc \in 1..MaxRc :
        QueryExited(rc) => (Len(out) = 1 /\ exitStatus = 0)

\* C3 as amended: after a non-zero exit of the query command, `list` prints
\* the diagnostic with the failure detail, then the one line
\* `No workspaces found`, and the exit status is 0.
C3_DiagnosticThenNoWorkspaces ==
    \A rc \in 1..MaxRc :
        QueryExited(rc) =>
            /\ out = << "Error getting workspaces: Command "
                        \o "'['hyprctl', 'workspaces', '-j']'"
                        \o " returned non-zero exit status "
                        \o ToString(rc) \o ".",
                        "No workspaces found" >>
            /\ exc = "none"
            /\ exitStatus = 0

\* the query command has exited with status 1 during `list`
C3_Witness == QueryExited(1) /\ Len(out) = 2

\* the decoded output is a non-empty array of records of the documented
\* shape
WellFormed(v) ==
    /\ v.kind = "array"
    /\ v.items # <<>>
    /\ \A i \in 1..Len(v.items) : v.items[i] \in Records

\* C4: for a non-empty array of well-formed records, `list` prints the
\* header and then one line per record, in array order, of the form
\* `  <id>: <name> (<windows> windows)`, with `Unnamed` for an absent name.
C4_OneLinePerRecord ==
    (QueryExited(0) /\ WellFormed(proc.stdout)) =>
        LET items == proc.stdout.items IN
        /\ Len(out) = Len(items) + 1
        /\ out[1] = "Active Workspaces:"
        /\ \A i \in 1..Len(items) :
             out[i + 1] = "  " \o ToString(items[i].id) \o ": "
                          \o (IF items[i].hasName THEN items[i].name
                              ELSE "Unnamed")
                          \o " (" \o ToString(items[i].windows) \o " windows)"
        /\ exc = "none"
        /\ exitStatus = 0

\* [{"id":0,"name":"main","windows":3},{"id":1,"windows":0}] has been listed
C4_Witness ==
    /\ QueryExited(0)
    /\ proc.stdout.kind = "array"
    /\ proc.stdout.items = << Element(TRUE, TRUE, 0, TRUE, "main", TRUE, 3),
                              Element(TRUE, TRUE, 1, FALSE, "", TRUE, 0) >>
    /\ out = << "Active Workspaces:",
                "  0: main (3 windows)",
                "  1: Unnamed (0 windows)" >>

\* the output is not JSON, or is JSON of another shape than an array of
\* records
Malformed(v) ==
    \/ v.kind # "array"
    \/ \E i \in 1..Len(v.items) : v.items[i] \notin Records

\* C5: output that is not JSON and output that is JSON of the wrong shape
\* are both handled like a failed command: no exception escapes, a message
\* is printed, the query counts as empty and the invocation ends normally.
C5_MalformedOutputIsSwallowed ==
    (QueryExited(0) /\ Malformed(proc.stdout)) =>
        /\ exc = "none"
        /\ exitStatus = 0
        /\ out # <<>>
        /\ out[Len(out)] = "No workspaces found"

\* C6 as stated: every accepted invocation has made exactly one external
\* call when it ends.
C6_ExactlyOneCall ==
    (pc = "done" /\ args.action \in Choices) => Len(calls) = 1

\* C6 as amended: an invocation never makes more than one external call;
\* `list` and `create` with a non-empty --name make exactly one, and
\* `create` with --name absent or empty, like a rejected command line,
\* makes none.
C6_AtMostOneCall ==
    /\ Len(calls) <= 1
    /\ (pc \in {"query", "dispatch"} => Len(calls) = 1)
    /\ (pc = "done" =>
          Len(calls) = IF args.action = "list" \/ CreateWithName THEN 1 ELSE 0)

\* `create` with no --name at all has ended without a call
C6_Witness ==
    /\ pc = "done"
    /\ args.action = "create"
    /\ ~args.name.given
    /\ calls = <<>>

\* C7: for every non-empty name, the argument list of the dispatch call is
\* exactly [hyprctl, dispatch, workspace, name:<name>].
C7_NameIsOneArgument ==
    (CreateWithName /\ pc # "start") =>
        calls = << <<"hyprctl", "dispatch", "workspace",
                     "name:" \o Str(args.name.value)>> >>

\* C8: for `create` with a non-empty name nothing is printed while the
\* dispatch command runs; after a zero exit the output is the confirmation
\* `Created workspace: <name>` alone; after a non-zero exit it is the
\* diagnostic with the failure detail alone; the exit status is 0 in both.
C8_ConfirmationOnlyOnSuccess ==
    /\ (pc = "dispatch" => out = <<>>)
    /\ (DispatchExited /\ proc.rc = 0) =>
          /\ out = <<"Created workspace: " \o Str(args.name.value)>>
          /\ exitStatus = 0
    /\ (DispatchExited /\ proc.rc # 0) =>
          /\ out = <<"Error creating workspace: Command '" \o Repr(calls[1])
                     \o "' returned non-zero exit status "
                     \o ToString(proc.rc) \o ".">>
          /\ exitStatus = 0

\* the dispatch command has exited with a non-zero status
C8_Witness == DispatchExited /\ proc.rc # 0 /\ Len(out) = 1

\* C9: after a zero exit with output that is not JSON, `list` prints the
\* parse-error diagnostic, no exception escapes, no header or workspace
\* line is printed, and the exit status is 0.
C9_ParseErrorIsSwallowed ==
    (QueryExited(0) /\ proc.stdout.kind = "invalid") =>
        /\ out # <<>>
        /\ out[1] = "Error parsing workspaces: " \o proc.stdout.detail
        /\ \A i \in 2..Len(out) : out[i] = "No workspaces found"
        /\ exc = "none"
        /\ exitStatus = 0

\* output that is not JSON has been reported
C9_Witness ==
    /\ QueryExited(0)
    /\ proc.stdout.kind = "invalid"
    /\ exitStatus = 0

\* C10: after a zero exit with an empty JSON array, `list` prints the single
\* line `No workspaces found` and returns normally.
C10_EmptyArray ==
    (QueryExited(0) /\ proc.stdout.kind = "array" /\ proc.stdout.items = <<>>) =>
        /\ out = <<"No workspaces found">>
        /\ exc = "none"
        /\ exitStatus = 0

\* an empty array has been listed
C10_Witness ==
    /\ QueryExited(0)
    /\ proc.stdout.kind = "array"
    /\ proc.stdout.items = <<>>
    /\ Len(out) = 1

====
